---- MODULE Spec2Model ----
(***************************************************************************)
(* Session lifecycle of go-universal/http (package session): construction, *)
(* Load, Set, Delete, AddTTL, SetTTL, Destroy, Save, Fresh and the         *)
(* transport synchronizer, run against an expiring key-value cache; the    *)
(* session middleware and the CSRF middleware built on it.                 *)
(* Durations and instants are whole days (24 * time.Hour is 1).            *)
(***************************************************************************)
EXTENDS Integers, Sequences, FiniteSets, TLC

\* ------------------------------------------------------------------ bounds
\* Largest reading of the clock; Tick stops there.
MaxTime == 1
\* Number of ids the generator hands out.
MaxGen == 1
\* Largest remaining TTL an AddTTL may ask a record to reach.
MaxRemaining == 3

\* ------------------------------------------------------- program constants
\* option.ttl before any WithTTL: 24 * time.Hour, one day.
DefaultTTL == 1

\* ------------------------------------------------------------------ values
\* Go values a handler stores, tagged with their dynamic type.
StrX == [type |-> "string", val |-> "x"]
Int1 == [type |-> "int", val |-> "1"]
Float1 == [type |-> "float64", val |-> "1"]
Values == {StrX, Int1}

EmptyMap == [x \in {} |-> StrX]

\* The id the client sends (cookie or header value); "" when it sends none.
ClientIds == {"", "c1"}

\* Keys a handler passes to Set and Delete.
KeyInputs == {"a", " a", " "}
DeleteInputs == {"a", " "}

\* Durations a handler passes to AddTTL and SetTTL.
TTLInputs == {0, 2}
\* Durations passed to WithTTL; 0 also stands for "option not given".
WithTTLInputs == {0, 2}
\* Remaining TTL of a record that exists before the request.
InitTTLs == {1}
\* What the cache reports as remaining TTL of a key it does not hold.
AbsentTTL == {-1, 0}
\* Index of the store call that fails in an operation; 0 when none does.
FailAt == 0..2

VARIABLES
    phase,      \* "start" before New, "live" after it returned a session, "failed" after it returned an error, "done" after the middleware returned
    clientId,   \* the id New read from the request
    optTTL,     \* option.ttl
    optHeader,  \* option.header
    optReadOnly,\* option.readOnly
    id,         \* session.id
    data,       \* session.data
    ttl,        \* session.ttl: the pending TTL request
    fresh,      \* session.fresh
    modified,   \* session.modified
    noop,       \* session.noop
    store,      \* the cache: key -> [valid, obj, ttl]
    now,        \* the clock
    nextGen,    \* how many ids the generator has produced, plus one
    op,         \* the operation that ran last
    err,        \* the error it returned: "nil", "store", "json" or "handler"
    found,      \* the bool Load returned
    calls,      \* the store calls it issued, in order
    carrier,    \* the response-carrier writes it made, in order
    destroyed,  \* history: a Destroy succeeded and no Fresh has run since
    cookie,     \* history, kept where cookie.on: lifetime of the latest cookie written, and the record's remaining TTL then
    failedAt,   \* index of the store call that failed in the last operation; 0 when none did
    held,       \* history: every non-empty id the session has held
    parked,     \* the fields of a second Session instance of the same process, while the first one runs
    mutex,      \* session.mutex: whether a writer holds it, and how many readers do
    pc,         \* where each goroutine that shares the session stands
    obs,        \* the call the reading goroutine makes and the value it returned last
    request,    \* the request the CSRF middleware handles
    response,   \* what the CSRF middleware answered
    optName,    \* option.name
    optCookie,  \* option.cookie: "nil", or whose attributes it points to
    options,    \* the options New was called with, where New applies them one by one
    todo        \* the calls each goroutine has still to make, where their number is finite

vars == <<phase, clientId, optTTL, optHeader, optReadOnly, id, data, ttl, fresh, modified,
          noop, store, now, nextGen, op, err, found, calls, carrier, destroyed,
          cookie, failedAt, held, parked, mutex, pc, obs, request, response,
          optName, optCookie, options, todo>>

opts == <<clientId, optTTL, optHeader, optReadOnly>>
fields == <<id, data, ttl, fresh, modified>>
\* What the operations of one Session instance called in sequence never touch.
others == <<parked, mutex, pc, obs, request, response, optName, optCookie, options, todo>>

\* ---------------------------------------------------------------- helpers
\* strings.TrimSpace on the keys of KeyInputs.
TrimSpace(key) ==
    IF key = " a" THEN "a" ELSE IF key = " " THEN "" ELSE key

MapSet(m, key, v) ==
    [x \in DOMAIN m \cup {key} |-> IF x = key THEN v ELSE m[x]]

MapDelete(m, key) ==
    [x \in DOMAIN m \ {key} |-> m[x]]

\* encoding/json on one value: every Go number is written as a JSON number.
MarshalValue(v) ==
    IF v.type = "string" THEN [json |-> "string", text |-> v.val]
    ELSE [json |-> "number", text |-> v.val]

\* encoding/json into an `any`: a JSON number is read as a float64.
UnmarshalValue(t) ==
    IF t.json = "string" THEN [type |-> "string", val |-> t.text]
    ELSE [type |-> "float64", val |-> t.text]

\* json.Marshal(s.data)
Marshal(d) ==
    [x \in DOMAIN d |-> MarshalValue(d[x])]

\* json.Unmarshal([]byte(encoded), &s.data) into a new map
Unmarshal(o) ==
    [x \in DOMAIN o |-> UnmarshalValue(o[x])]

\* time.Now().Format(time.RFC3339)
Format(t) ==
    [type |-> "string", val |-> "T" \o ToString(t)]

\* s.opt.generator(): the n-th id it produces
Generator(n) ==
    "g" \o ToString(n)

\* session.k
k(sid) ==
    "ses-" \o sid

\* ------------------------------------------------------------- the cache
Call(o, key, val, t) ==
    [op |-> o, key |-> key, val |-> val, ttl |-> t]

CacheExists(st, key) ==
    key \in DOMAIN st

CacheTTL(st, key, none) ==
    IF key \in DOMAIN st THEN st[key].ttl ELSE none

CachePut(st, key, val, t) ==
    [x \in DOMAIN st \cup {key} |->
        IF x = key THEN [valid |-> TRUE, obj |-> val, ttl |-> t] ELSE st[x]]

CacheUpdate(st, key, val) ==
    IF key \in DOMAIN st
    THEN [st EXCEPT ![key] = [valid |-> TRUE, obj |-> val, ttl |-> st[key].ttl]]
    ELSE st

CacheForget(st, key) ==
    [x \in DOMAIN st \ {key} |-> st[x]]

\* The cache after one call that did not fail.
CacheApply(st, c) ==
    CASE c.op = "put" -> CachePut(st, c.key, c.val, c.ttl)
      [] c.op = "update" -> CacheUpdate(st, c.key, c.val)
      [] c.op = "forget" -> CacheForget(st, c.key)
      [] OTHER -> st

RECURSIVE CacheApplyAll(_, _)
CacheApplyAll(st, cs) ==
    IF cs = <<>> THEN st ELSE CacheApplyAll(CacheApply(st, Head(cs)), Tail(cs))

\* Mutant of Issued: the operation goes on after the call that failed.
IssuedAll(plan, f) ==
    plan

\* Of the calls an operation makes when none fails, those it issues when
\* call f fails (f = 0: none fails), and those that took effect.
Issued(plan, f) ==
    IF f = 0 THEN plan ELSE SubSeq(plan, 1, f)

Effective(plan, f) ==
    IF f = 0 THEN plan ELSE SubSeq(plan, 1, f - 1)

\* Mutant of Completes: the operation goes on to its assignments after an error.
CompletesAlways(f) ==
    TRUE

\* Destroy, Save, Fresh: the statements after the store calls are reached when
\* no call returned an error (if err != nil { return err }).
Completes(f) ==
    f = 0

\* One time unit passes in the cache: remaining TTLs shrink, records at 0 go.
CacheTick(st) ==
    [x \in {y \in DOMAIN st : st[y].ttl > 1} |-> [st[x] EXCEPT !.ttl = @ - 1]]

\* ------------------------------------------------------------ the session
\* No cookie has been written yet; on tells whether cookie writes are recorded.
NoCookie(on) == [on |-> on, set |-> FALSE, life |-> 0, rem |-> 0]

\* What every operation leaves behind for its caller and for the response.
Log(o, e, b, cs, ws) ==
    /\ op' = o
    /\ err' = e
    /\ found' = b
    /\ calls' = cs
    /\ carrier' = ws
    /\ cookie' = IF cookie.on /\ ws # <<>> /\ ws[1].kind = "cookie"
                 THEN [on |-> TRUE, set |-> TRUE, life |-> ws[1].expires - now,
                       rem |-> CacheTTL(store, k(ws[1].value), 0)]
                 ELSE cookie

\* The same, for an operation called on its own: one instance, one goroutine.
Result(o, e, b, cs, ws) ==
    /\ Log(o, e, b, cs, ws)
    /\ UNCHANGED others

\* Readers.
Id == id
Get(key) == IF key \in DOMAIN data THEN data[key] ELSE [type |-> "nil", val |-> ""]
Exists(key) == key \in DOMAIN data

\* Set: the map after s.data[k] = v, k trimmed and not blank.
SetData(d, key, v) ==
    IF TrimSpace(key) # "" THEN MapSet(d, TrimSpace(key), v) ELSE d

\* Mutant of SetMarks: Set stores the value and leaves modified as it was.
SetMarksNever(key) ==
    FALSE

\* Set: whether it marks the session modified.
SetMarks(key) ==
    TrimSpace(key) # ""

\* Set / Delete: the guard of the early return.
SetSkips ==
    noop

DeleteSkips ==
    noop

Set(key, v) ==
    /\ phase = "live"
    /\ failedAt' = 0
    /\ Result("Set", "nil", FALSE, <<>>, <<>>)
    /\ IF SetSkips
       THEN UNCHANGED <<data, modified>>
       ELSE /\ data' = SetData(data, key, v)
            /\ modified' = (modified \/ SetMarks(key))
    /\ UNCHANGED <<phase, opts, id, ttl, fresh, noop, store, now, nextGen, destroyed, held>>

Delete(key) ==
    /\ phase = "live"
    /\ failedAt' = 0
    /\ Result("Delete", "nil", FALSE, <<>>, <<>>)
    /\ IF DeleteSkips
       THEN UNCHANGED <<data, modified>>
       ELSE /\ data' = MapDelete(data, key)
            /\ modified' = TRUE
    /\ UNCHANGED <<phase, opts, id, ttl, fresh, noop, store, now, nextGen, destroyed, held>>

\* Mutant of SyncCalls: the remaining TTL is read before the mode is looked at.
SyncCallsTTLFirst(sid, sfresh, sttl, hdr) ==
    IF sid = "" \/ noop THEN <<>>
    ELSE IF ~sfresh /\ sttl > 0 THEN <<Call("ttl", k(sid), EmptyMap, 0)>>
    ELSE <<>>

\* syncLocked: the store calls it makes for a session with these fields.
SyncCalls(sid, sfresh, sttl, hdr) ==
    IF sid = "" \/ noop THEN <<>>
    ELSE IF hdr THEN <<>>
    ELSE IF ~sfresh /\ sttl > 0 THEN <<Call("ttl", k(sid), EmptyMap, 0)>>
    ELSE <<>>

\* syncLocked: the lifetime it gives the cookie.
SyncTTL(sfresh, sttl, cacheTTL) ==
    IF sfresh THEN sttl
    ELSE IF sttl < 0 THEN -sttl
    ELSE IF sttl > 0 /\ cacheTTL > 0 THEN sttl + cacheTTL
    ELSE sttl

\* Mutant of SyncWrite: in header mode nothing is written.
SyncWriteCookieOnly(sid, sfresh, sttl, hdr, cacheTTL) ==
    IF sid = "" \/ noop \/ hdr THEN <<>>
    ELSE <<[kind |-> "cookie", value |-> sid,
            expires |-> now + SyncTTL(sfresh, sttl, cacheTTL)]>>

\* syncLocked: what it writes on the response when no store call fails.
SyncWrite(sid, sfresh, sttl, hdr, cacheTTL) ==
    IF sid = "" \/ noop THEN <<>>
    ELSE IF hdr THEN <<[kind |-> "header", value |-> sid, expires |-> 0]>>
    ELSE <<[kind |-> "cookie", value |-> sid,
            expires |-> now + SyncTTL(sfresh, sttl, cacheTTL)]>>

\* Mutant of TTLSkips: the read-only miss is not checked.
TTLSkipsNoReadOnly(t) ==
    t <= 0

\* AddTTL / SetTTL: the guard of the early return.
TTLSkips(t) ==
    t <= 0 \/ noop

\* Mutant of Pending: a request to extend adds to a pending request to extend.
PendingAccumulates(cur, req) ==
    IF cur > 0 /\ req > 0 THEN cur + req ELSE req

\* AddTTL / SetTTL: the pending TTL request after a request req, cur pending.
Pending(cur, req) ==
    req

\* The body shared by AddTTL (req = t) and SetTTL (req = -t).
ScheduleTTL(name, req, f, none) ==
    LET pending == Pending(ttl, req)
        plan == SyncCalls(id, fresh, pending, optHeader) IN
    /\ f <= Len(plan)
    /\ (none = 0 \/ (plan # <<>> /\ f = 0 /\ ~CacheExists(store, k(id))))
    /\ (pending > 0 => CacheTTL(store, k(id), 0) + pending <= MaxRemaining)
    /\ ttl' = pending
    /\ modified' = TRUE
    /\ Log(name, IF f = 0 THEN "nil" ELSE "store", FALSE, Issued(plan, f),
           IF f = 0
           THEN SyncWrite(id, fresh, pending, optHeader, CacheTTL(store, k(id), none))
           ELSE <<>>)

AddTTL(t, f, none) ==
    /\ phase = "live"
    /\ failedAt' = f
    /\ IF TTLSkips(t)
       THEN /\ f = 0 /\ none = 0
            /\ Result("AddTTL", "nil", FALSE, <<>>, <<>>)
            /\ UNCHANGED <<ttl, modified>>
       ELSE /\ ScheduleTTL("AddTTL", t, f, none)
            /\ UNCHANGED others
    /\ UNCHANGED <<phase, opts, id, data, fresh, noop, store, now, nextGen, destroyed, held>>

SetTTL(t, f, none) ==
    /\ phase = "live"
    /\ failedAt' = f
    /\ IF TTLSkips(t)
       THEN /\ f = 0 /\ none = 0
            /\ Result("SetTTL", "nil", FALSE, <<>>, <<>>)
            /\ UNCHANGED <<ttl, modified>>
       ELSE /\ ScheduleTTL("SetTTL", -t, f, none)
            /\ UNCHANGED others
    /\ UNCHANGED <<phase, opts, id, data, fresh, noop, store, now, nextGen, destroyed, held>>

\* Mutant of DestroySkips: the read-only miss is not checked.
DestroySkipsNoNoop ==
    id = ""

\* Mutant of DestroySkips: the empty id is not checked.
DestroySkipsNoIdCheck ==
    noop

\* Destroy: the guard of the early return.
DestroySkips ==
    id = "" \/ noop

\* Destroy, past its guard: the forget and, if it succeeds, the reset.
DestroyBody(f) ==
    LET plan == <<Call("forget", k(id), EmptyMap, 0)>> IN
    /\ f <= Len(plan)
    /\ store' = CacheApplyAll(store, Effective(plan, f))
    /\ Log("Destroy", IF f = 0 THEN "nil" ELSE "store", FALSE, Issued(plan, f), <<>>)
    /\ IF Completes(f)
       THEN /\ id' = ""
            /\ data' = EmptyMap
            /\ ttl' = 0
            /\ fresh' = FALSE
            /\ modified' = FALSE
            /\ destroyed' = TRUE
       ELSE UNCHANGED <<fields, destroyed>>

Destroy(f) ==
    /\ phase = "live"
    /\ failedAt' = f
    /\ IF DestroySkips
       THEN /\ f = 0
            /\ Result("Destroy", "nil", FALSE, <<>>, <<>>)
            /\ UNCHANGED <<fields, store, destroyed>>
       ELSE /\ DestroyBody(f)
            /\ UNCHANGED others
    /\ UNCHANGED <<phase, opts, noop, now, nextGen, held>>

\* Mutant of SaveSkips: a session is saved only if fresh and modified.
SaveSkipsOr ==
    id = "" \/ (~fresh \/ ~modified) \/ noop

\* Mutant of SaveSkips: an unchanged session is saved too.
SaveSkipsAlwaysWrites ==
    id = "" \/ noop

\* Mutant of SaveSkips: the empty id is not checked.
SaveSkipsNoIdCheck ==
    (~fresh /\ ~modified) \/ noop

\* Save: the guard of the early return.
SaveSkips ==
    id = "" \/ (~fresh /\ ~modified) \/ noop

\* Mutant of SaveTTL: an expired or absent record is not told apart.
SaveTTLNoExpiryCheck(pending, current) ==
    IF pending > 0 THEN current + pending ELSE -pending

\* Mutant of SaveTTL: SetTTL extends the remaining TTL as AddTTL does.
SaveTTLSetExtends(pending, current) ==
    IF pending > 0
    THEN (IF current <= 0 THEN pending ELSE current + pending)
    ELSE (IF current <= 0 THEN -pending ELSE current - pending)

\* Save: the TTL it puts for a pending request, given the cache's remaining TTL.
SaveTTL(pending, current) ==
    IF pending > 0
    THEN (IF current <= 0 THEN pending ELSE current + pending)
    ELSE -pending

\* Mutant of SavePlan: data changes without a TTL request are put with the
\* default TTL.
SavePlanPutsDefault(none) ==
    IF fresh \/ ttl = 0
    THEN <<Call("put", k(id), Marshal(data), optTTL)>>
    ELSE (IF ttl > 0 THEN <<Call("ttl", k(id), EmptyMap, 0)>> ELSE <<>>)
         \o <<Call("put", k(id), Marshal(data), SaveTTL(ttl, CacheTTL(store, k(id), none)))>>

\* Mutant of SavePlan: a pending TTL request is looked at before fresh.
SavePlanTTLFirst(none) ==
    IF ttl # 0
    THEN (IF ttl > 0 THEN <<Call("ttl", k(id), EmptyMap, 0)>> ELSE <<>>)
         \o <<Call("put", k(id), Marshal(data), SaveTTL(ttl, CacheTTL(store, k(id), none)))>>
    ELSE IF fresh
    THEN <<Call("put", k(id), Marshal(data), optTTL)>>
    ELSE <<Call("update", k(id), Marshal(data), 0)>>

\* Save: the store calls it makes when none fails.
SavePlan(none) ==
    IF fresh
    THEN <<Call("put", k(id), Marshal(data), optTTL)>>
    ELSE IF ttl # 0
    THEN (IF ttl > 0 THEN <<Call("ttl", k(id), EmptyMap, 0)>> ELSE <<>>)
         \o <<Call("put", k(id), Marshal(data), SaveTTL(ttl, CacheTTL(store, k(id), none)))>>
    ELSE <<Call("update", k(id), Marshal(data), 0)>>

\* Mutant of Saved: the pending TTL request outlives the Save.
SavedKeepsTTL ==
    [ttl |-> ttl, fresh |-> FALSE, modified |-> FALSE]

\* Save: the flags and the pending TTL request it leaves after its write.
Saved ==
    [ttl |-> 0, fresh |-> FALSE, modified |-> FALSE]

\* Save, past its guard: the store calls and, if none fails, the reset.
SaveBody(f, none) ==
    LET plan == SavePlan(none) IN
    /\ f <= Len(plan)
    /\ (none = 0 \/ (~fresh /\ ttl > 0 /\ f = 0 /\ ~CacheExists(store, k(id))))
    /\ store' = CacheApplyAll(store, Effective(plan, f))
    /\ Log("Save", IF f = 0 THEN "nil" ELSE "store", FALSE, Issued(plan, f), <<>>)
    /\ IF Completes(f)
       THEN /\ ttl' = Saved.ttl
            /\ fresh' = Saved.fresh
            /\ modified' = Saved.modified
       ELSE UNCHANGED <<ttl, fresh, modified>>

\* The body of Save, run by Save and by the middleware at the end of a request.
DoSave(f, none) ==
    /\ failedAt' = f
    /\ IF SaveSkips
       THEN /\ f = 0 /\ none = 0
            /\ Result("Save", "nil", FALSE, <<>>, <<>>)
            /\ UNCHANGED <<ttl, fresh, modified, store>>
       ELSE /\ SaveBody(f, none)
            /\ UNCHANGED others
    /\ UNCHANGED <<opts, id, data, noop, now, nextGen, destroyed, held>>

Save(f, none) ==
    /\ phase = "live"
    /\ DoSave(f, none)
    /\ UNCHANGED phase

\* Fresh: the data of a new session.
FreshData(t) ==
    [x \in {"created_at"} |-> Format(t)]

\* Mutant of FreshId: a session that has an id keeps it.
FreshIdKeepsOld ==
    IF id # "" THEN id ELSE Generator(nextGen)

\* Fresh: the id of the new session.
FreshId ==
    Generator(nextGen)

\* Mutant of FreshPlan: the record of the old id is left in the store.
FreshPlanKeepsOld(cur) ==
    <<>>

\* Fresh: the store calls it makes for a session holding id cur.
FreshPlan(cur) ==
    IF cur # "" THEN <<Call("forget", k(cur), EmptyMap, 0)>> ELSE <<>>

\* The body of Fresh for a session holding id cur, run by operation name after
\* the store calls pre; dttl and hdr are option.ttl and option.header.
DoFresh(name, cur, pre, f, dttl, hdr) ==
    LET plan == pre \o FreshPlan(cur) IN
    /\ f <= Len(plan)
    /\ f > 0 \/ nextGen <= MaxGen
    /\ store' = CacheApplyAll(store, Effective(plan, f))
    /\ IF Completes(f)
       THEN /\ id' = FreshId
            /\ ttl' = dttl
            /\ data' = FreshData(now)
            /\ fresh' = TRUE
            /\ modified' = TRUE
            /\ nextGen' = nextGen + 1
            /\ destroyed' = FALSE
            /\ held' = held \cup ({cur, FreshId} \ {""})
            /\ Log(name, "nil", FALSE, plan, SyncWrite(FreshId, TRUE, dttl, hdr, 0))
       ELSE /\ Log(name, "store", FALSE, Issued(plan, f), <<>>)
            /\ UNCHANGED <<fields, nextGen, destroyed, held>>

\* Fresh: the guard of the early return.
FreshSkips ==
    noop

Fresh(f) ==
    /\ phase = "live"
    /\ failedAt' = f
    /\ IF FreshSkips
       THEN /\ f = 0
            /\ Result("Fresh", "nil", FALSE, <<>>, <<>>)
            /\ UNCHANGED <<fields, store, nextGen, destroyed, held>>
       ELSE /\ DoFresh("Fresh", id, <<>>, f, optTTL, optHeader)
            /\ UNCHANGED others
    /\ UNCHANGED <<phase, opts, noop, now>>

\* Load: the store calls it makes for id sid when none fails.
LoadPlan(sid) ==
    IF sid = "" THEN <<>>
    ELSE IF CacheExists(store, k(sid))
    THEN <<Call("exists", k(sid), EmptyMap, 0), Call("cast", k(sid), EmptyMap, 0)>>
    ELSE <<Call("exists", k(sid), EmptyMap, 0)>>

\* Load: whether it reaches the record of id sid.
LoadFinds(sid) ==
    sid # "" /\ CacheExists(store, k(sid))

\* Mutant of LoadErr: a blob that cannot be deserialized is no error.
LoadErrAsMiss(sid, f) ==
    IF f > 0 THEN "store" ELSE "nil"

\* Load: the error it returns when call f fails (f = 0: none) for id sid.
LoadErr(sid, f) ==
    IF f > 0 THEN "store"
    ELSE IF LoadFinds(sid) /\ ~store[k(sid)].valid THEN "json"
    ELSE "nil"

\* Load: the data it leaves; unchanged unless both store calls succeeded.
LoadData(sid, f, d) ==
    IF f = 0 /\ LoadFinds(sid)
    THEN (IF store[k(sid)].valid THEN Unmarshal(store[k(sid)].obj) ELSE EmptyMap)
    ELSE d

Load(f) ==
    /\ phase = "live"
    /\ failedAt' = f
    /\ f <= Len(LoadPlan(id))
    /\ data' = LoadData(id, f, data)
    /\ Result("Load", LoadErr(id, f), LoadFinds(id) /\ LoadErr(id, f) = "nil",
              Issued(LoadPlan(id), f), <<>>)
    /\ UNCHANGED <<phase, opts, id, ttl, fresh, modified, noop, store, now, nextGen,
                   destroyed, held>>

\* New: option.ttl after WithTTL(w).
OptionTTL(w) ==
    IF w > 0 THEN w ELSE DefaultTTL

\* Mutant of NewMode: outside read-only mode the client's id is kept on a miss.
NewModeKeepsClientId(ok, ro) ==
    IF ro /\ ~ok THEN "noop" ELSE "loaded"

\* Mutant of NewMode: the read-only option is not looked at.
NewModeIgnoresReadOnly(ok, ro) ==
    IF ok THEN "loaded" ELSE "fresh"

\* New: what it does with the answer of Load, in read-only mode or not.
NewMode(ok, ro) ==
    IF ok THEN "loaded" ELSE IF ro THEN "noop" ELSE "fresh"

New(sid, ro, hdr, w, f) ==
    /\ phase = "start"
    /\ failedAt' = f
    /\ clientId' = sid
    /\ optTTL' = OptionTTL(w)
    /\ optHeader' = hdr
    /\ optReadOnly' = ro
    /\ UNCHANGED now
    /\ IF LoadErr(sid, IF f <= Len(LoadPlan(sid)) THEN f ELSE 0) # "nil"
       THEN \* Load failed: New returns the error and no session
            /\ f <= Len(LoadPlan(sid))
            /\ phase' = "failed"
            /\ Result("New", LoadErr(sid, f), FALSE, Issued(LoadPlan(sid), f), <<>>)
            /\ UNCHANGED <<fields, noop, store, nextGen, destroyed, held>>
       ELSE IF NewMode(LoadFinds(sid), ro) = "loaded"
       THEN \* the record was loaded
            /\ f = 0
            /\ phase' = "live"
            /\ id' = sid
            /\ data' = LoadData(sid, 0, EmptyMap)
            /\ held' = {sid} \ {""}
            /\ Result("New", "nil", TRUE, LoadPlan(sid), <<>>)
            /\ UNCHANGED <<ttl, fresh, modified, noop, store, nextGen, destroyed>>
       ELSE IF NewMode(LoadFinds(sid), ro) = "noop"
       THEN \* read-only miss
            /\ f = 0
            /\ phase' = "live"
            /\ id' = sid
            /\ noop' = TRUE
            /\ held' = {sid} \ {""}
            /\ Result("New", "nil", FALSE, LoadPlan(sid), <<>>)
            /\ UNCHANGED <<data, ttl, fresh, modified, store, nextGen, destroyed>>
       ELSE \* miss: Fresh
            /\ f = 0 \/ f > Len(LoadPlan(sid))
            /\ DoFresh("New", sid, LoadPlan(sid), f, OptionTTL(w), hdr)
            /\ UNCHANGED others
            /\ phase' = IF f = 0 THEN "live" ELSE "failed"
            /\ UNCHANGED noop

\* Time passes.
Tick ==
    /\ phase = "live"
    /\ failedAt' = 0
    /\ now < MaxTime
    /\ now' = now + 1
    /\ store' = CacheTick(store)
    /\ Result("Tick", "nil", FALSE, <<>>, <<>>)
    /\ UNCHANGED <<phase, opts, fields, noop, nextGen, destroyed, held>>

\* ----------------------------------------------------------- specification
\* Records the cache may hold for the client's id when the request arrives.
InitObjs ==
    { Marshal(MapSet(FreshData(0), "a", Int1)) }

InitStores ==
    {EmptyMap}
    \cup { [x \in {k("c1")} |-> [valid |-> TRUE, obj |-> o, ttl |-> t]] :
             o \in InitObjs, t \in InitTTLs }
    \cup { [x \in {k("c1")} |-> [valid |-> FALSE, obj |-> EmptyMap, ttl |-> 1]] }

\* Before New runs: no session yet, the clock at 0, nothing logged.
InitSession ==
    /\ phase = "start"
    /\ clientId = ""
    /\ optTTL = DefaultTTL
    /\ optHeader = FALSE
    /\ optReadOnly = FALSE
    /\ id = ""
    /\ data = EmptyMap
    /\ ttl = 0
    /\ fresh = FALSE
    /\ modified = FALSE
    /\ noop = FALSE
    /\ store \in InitStores
    /\ now = 0
    /\ nextGen = 1
    /\ op = "none"
    /\ err = "nil"
    /\ found = FALSE
    /\ calls = <<>>
    /\ carrier = <<>>
    /\ destroyed = FALSE
    /\ failedAt = 0
    /\ held = {}

\* No second instance, no second goroutine, no CSRF middleware.
NoPeer ==
    [id |-> "", data |-> EmptyMap, ttl |-> 0, fresh |-> FALSE, modified |-> FALSE,
     noop |-> FALSE]
NoValue == [type |-> "none", val |-> ""]
NoRequest ==
    [method |-> "", headerValue |-> "", formValue |-> "", header |-> FALSE,
     fail |-> FALSE, skip |-> "nil"]
NoResponse == [outcome |-> "none", status |-> 0, body |-> "", error |-> ""]

\* New before its options: the name and the cookie attributes it starts from.
\* Specifications that hand New the outcome of its options leave them there.
Defaults ==
    /\ optName = "session"
    /\ optCookie = "default"
    /\ options = <<>>

Alone ==
    /\ parked = NoPeer
    /\ mutex = [writer |-> FALSE, readers |-> 0]
    /\ pc = [w |-> "idle", r |-> "idle"]
    /\ obs = [call |-> "none", value |-> NoValue]
    /\ request = NoRequest
    /\ response = NoResponse
    /\ Defaults
    /\ todo = <<>>

Init ==
    /\ InitSession
    /\ cookie = NoCookie(FALSE)
    /\ Alone

Next ==
    \/ \E sid \in ClientIds, ro \in BOOLEAN, hdr \in BOOLEAN, w \in WithTTLInputs, f \in FailAt :
          New(sid, ro, hdr, w, f)
    \/ \E key \in KeyInputs, v \in Values : Set(key, v)
    \/ \E key \in DeleteInputs : Delete(key)
    \/ \E t \in TTLInputs, f \in FailAt, none \in AbsentTTL : AddTTL(t, f, none)
    \/ \E t \in TTLInputs, f \in FailAt, none \in AbsentTTL : SetTTL(t, f, none)
    \/ \E f \in FailAt : Destroy(f)
    \/ \E f \in FailAt, none \in AbsentTTL : Save(f, none)
    \/ \E f \in FailAt : Fresh(f)
    \/ \E f \in FailAt : Load(f)
    \/ Tick

Spec == Init /\ [][Next]_vars

\* ------------------------------------------------------------------ claims
\* The operations of the consumer interface that change or persist the session,
\* Fresh apart.
Mutators == {"Set", "Delete", "AddTTL", "SetTTL", "Save", "Destroy"}

\* What a new Session built with the id of this one loads from the cache now.
Reloaded == LoadData(id, 0, EmptyMap)

C2_SaveUnmodified ==
    [][(phase = "live" /\ ~fresh /\ ~modified /\ op' = "Save")
        => (calls' = <<>> /\ err' = "nil"
            /\ UNCHANGED <<id, data, ttl, fresh, modified, noop, store>>)]_vars

\* C2 witness: Save ran on a loaded, unmodified session and did nothing.
C2_Witness ==
    /\ op = "Save" /\ err = "nil" /\ calls = <<>>
    /\ id = "c1" /\ ~noop /\ ~fresh /\ ~modified /\ LoadFinds(id)

\* C3: Save on a fresh session with a non-empty id issues exactly one store
\* call, a put of the serialized data under "ses-" + id with the configured
\* default TTL, whatever TTL request is pending.
C3_FreshSavePuts ==
    [][(phase = "live" /\ fresh /\ id # "" /\ op' = "Save")
        => calls' = <<[op |-> "put", key |-> "ses-" \o id, val |-> Marshal(data),
                       ttl |-> optTTL]>>]_vars

\* C3 witness: Save ran on a fresh session with a pending SetTTL and issued the
\* one put with the default TTL (the put failed, so the session is still fresh).
C3_Witness ==
    /\ op = "Save" /\ fresh /\ ttl < 0 /\ -ttl # optTTL
    /\ Len(calls) = 1 /\ calls[1].op = "put" /\ calls[1].ttl = optTTL

\* C4: a successful Save of a non-fresh session with a pending AddTTL(d)
\* leaves the record with TTL r + d when the cache holds it with remaining TTL
\* r > 0, and with TTL d when the cache does not hold it.
C4_AddTTLPersisted ==
    [][(phase = "live" /\ ~fresh /\ ttl > 0 /\ id # "" /\ ~noop
         /\ op' = "Save" /\ err' = "nil")
        => /\ k(id) \in DOMAIN store'
           /\ store'[k(id)].ttl =
                IF k(id) \in DOMAIN store THEN store[k(id)].ttl + ttl ELSE ttl]_vars

\* C4 witness: Save read a remaining TTL of 1 and put the record with 1 + 2.
C4_Witness ==
    /\ op = "Save" /\ err = "nil" /\ Len(calls) = 2
    /\ calls[1].op = "ttl" /\ calls[2].op = "put" /\ calls[2].ttl = 3
    /\ store[k(id)].ttl = 3

\* C5 (as stated): a successful Save with a pending SetTTL(d), in every state
\* in which Save writes, a fresh session included, leaves the record with TTL d.
C5_SetTTLAlways ==
    [][(phase = "live" /\ ttl < 0 /\ id # "" /\ ~noop /\ op' = "Save" /\ err' = "nil")
        => (k(id) \in DOMAIN store' /\ store'[k(id)].ttl = -ttl)]_vars

\* C5 (amended): a successful Save of a session that is not fresh, with a
\* pending SetTTL(d), leaves the record with TTL d, whatever its remaining TTL.
C5_SetTTLNonFresh ==
    [][(phase = "live" /\ ~fresh /\ ttl < 0 /\ id # "" /\ ~noop
         /\ op' = "Save" /\ err' = "nil")
        => (k(id) \in DOMAIN store' /\ store'[k(id)].ttl = -ttl)]_vars

\* C5 witness: Save put the record with TTL 2 in one call, which only a pending
\* SetTTL(2) on a non-fresh session does when the default TTL is not 2.
C5_Witness ==
    /\ op = "Save" /\ err = "nil" /\ optTTL # 2
    /\ Len(calls) = 1 /\ calls[1].op = "put" /\ calls[1].ttl = 2
    /\ store[k(id)].ttl = 2

\* C6: in the read-only-miss state the data set is empty, the session is not
\* fresh and its id is the one the client sent (the generator never ran);
\* every Set, Delete, AddTTL, SetTTL, Destroy, Fresh and Save leaves id, data,
\* fresh, modified and the pending TTL as they were, issues no store call and
\* writes nothing on the response.
C6_ReadOnlyMissInert ==
    /\ [](noop => (data = EmptyMap /\ ~fresh /\ Id = clientId /\ nextGen = 1
                   /\ \A key \in KeyInputs \cup {"a", "created_at"} : ~Exists(key)))
    /\ [][(noop /\ op' \in Mutators \cup {"Fresh"})
            => (UNCHANGED <<id, data, fresh, modified, ttl, store>>
                /\ calls' = <<>> /\ carrier' = <<>>)]_vars

\* C6 witness: AddTTL ran on a read-only miss that holds the client's id.
C6_Witness ==
    noop /\ op = "AddTTL" /\ id = "c1" /\ ttl = 0 /\ ~modified

\* C7: after a successful Destroy and until Fresh runs, every Save issues no
\* store call, whatever Set, Delete, AddTTL and SetTTL ran in between.
C7_DestroyedSaveInert ==
    (destroyed /\ op = "Save") => (calls = <<>> /\ err = "nil")

\* C7 witness: Save ran on a destroyed session that a later Set had modified.
C7_Witness ==
    destroyed /\ op = "Save" /\ modified /\ "a" \in DOMAIN data /\ calls = <<>>

\* C8 (as stated): while id is empty, Set, Delete, AddTTL, SetTTL, Save and
\* Destroy leave data, fresh, modified and the pending TTL as they were and
\* issue no store call and no response write.
C8_EmptyIdAllNoops ==
    [][(phase = "live" /\ id = "" /\ op' \in Mutators)
        => (UNCHANGED <<data, fresh, modified, ttl>>
            /\ calls' = <<>> /\ carrier' = <<>>)]_vars

\* C8 (amended): while id is empty, Set, Delete, AddTTL, SetTTL, Save and
\* Destroy issue no store call and no response write and leave id, fresh and
\* the cache as they were; Save and Destroy change nothing at all, while Set,
\* Delete, AddTTL and SetTTL may still change data, modified and the pending TTL
\* in memory.
C8_EmptyIdNothingPersisted ==
    [][(phase = "live" /\ id = "" /\ op' \in Mutators)
        => /\ calls' = <<>> /\ carrier' = <<>>
           /\ UNCHANGED <<id, fresh, store>>
           /\ (op' \in {"Save", "Destroy"} => UNCHANGED <<data, modified, ttl>>)]_vars

\* C8 witness: a destroyed session, then SetTTL, then a Save that did nothing.
C8_Witness ==
    id = "" /\ ~noop /\ op = "Save" /\ ttl < 0 /\ modified /\ calls = <<>>

\* C9: New ends in one of three states. The record of a non-empty client id
\* exists: it is loaded, id is the client's, not fresh, not modified, not noop.
\* No record, normal mode: Fresh has run. No record, read-only mode: noop, not
\* fresh, the only store call an exists. New fails only with the error of a
\* store call or of deserialization, the latter only for a record that exists.
C9_Construction ==
    [][(op' = "New") =>
        LET exists == clientId' # "" /\ k(clientId') \in DOMAIN store IN
        /\ phase' \in {"live", "failed"}
        /\ (phase' = "failed") = (err' # "nil")
        /\ (err' = "json") => (exists /\ ~store[k(clientId')].valid)
        /\ (phase' = "live" /\ exists) =>
              /\ id' = clientId' /\ ~fresh' /\ ~modified' /\ ~noop' /\ ttl' = 0
              /\ data' = Unmarshal(store[k(clientId')].obj)
              /\ store' = store
        /\ (phase' = "live" /\ ~exists /\ ~optReadOnly') =>
              /\ fresh' /\ modified' /\ ~noop' /\ ttl' = optTTL'
              /\ id' \notin {"", clientId'}
              /\ DOMAIN data' = {"created_at"}
        /\ (phase' = "live" /\ ~exists /\ optReadOnly') =>
              /\ noop' /\ ~fresh' /\ ~modified' /\ id' = clientId' /\ data' = EmptyMap
              /\ store' = store
              /\ \A i \in DOMAIN calls' : calls'[i].op = "exists"
              /\ carrier' = <<>>]_vars

\* C9 witness: New in read-only mode found no record for the client's id.
C9_Witness ==
    op = "New" /\ phase = "live" /\ optReadOnly /\ noop /\ id = "c1" /\ Len(calls) = 1

\* C10: a successful Fresh on a session that is not a read-only miss (run by
\* the handler or by New) leaves an id that is not empty and that the session
\* never held, data holding the key created_at alone, fresh, modified, and the
\* pending TTL equal to the default TTL.
C10_FreshResets ==
    [][((op' = "Fresh" /\ ~noop /\ err' = "nil")
         \/ (op' = "New" /\ phase' = "live" /\ fresh'))
        => /\ id' # "" /\ id' # id /\ id' \notin held \cup {clientId'}
           /\ data' = [x \in {"created_at"} |-> Format(now)]
           /\ fresh' /\ modified' /\ ttl' = optTTL']_vars

\* C10 witness: Fresh replaced the loaded session of the client's id.
C10_Witness ==
    /\ op = "Fresh" /\ err = "nil" /\ fresh /\ "c1" \in held /\ id = "g1"
    /\ DOMAIN data = {"created_at"}

\* C11: Load returns (false, nil) and leaves data alone when the id is empty
\* (no store call) or the cache does not hold the key; it returns (true, nil)
\* and replaces data by the deserialized record when the cache holds it; it
\* returns (false, error) when a store call fails or the blob cannot be
\* deserialized, and New, which calls Load, then returns no session.
C11_LoadOutcomes ==
    [][/\ (op' = "Load" /\ phase = "live")
            => /\ (id = "" => ~found' /\ err' = "nil" /\ calls' = <<>> /\ data' = data)
               /\ (id # "" /\ ~CacheExists(store, k(id)) /\ failedAt' = 0)
                     => (~found' /\ err' = "nil" /\ data' = data)
               /\ (id # "" /\ CacheExists(store, k(id)) /\ store[k(id)].valid /\ failedAt' = 0)
                     => (found' /\ err' = "nil" /\ data' = Unmarshal(store[k(id)].obj))
               /\ (failedAt' # 0) => (~found' /\ err' = "store" /\ data' = data)
               /\ (id # "" /\ CacheExists(store, k(id)) /\ ~store[k(id)].valid)
                     => (~found' /\ err' # "nil")
               /\ store' = store
       /\ (op' = "New" /\ phase = "start" /\ CacheExists(store, k(clientId'))
               /\ ~store[k(clientId')].valid)
            => (phase' = "failed" /\ err' # "nil" /\ ~found' /\ ~fresh' /\ ~noop')
      ]_vars

\* C11 witness: a handler's Load found the record and replaced the data the
\* handler had changed by the stored ones.
C11_Witness ==
    /\ op = "Load" /\ found /\ err = "nil" /\ modified
    /\ data = Unmarshal(store[k(id)].obj)
    /\ Len(calls) = 2

\* C12: in Load, Save, Fresh, Destroy, AddTTL and SetTTL a store call that
\* fails makes the operation return the store's error, and the failing call is
\* the last one the operation issues.
C12_StoreErrorsPropagate ==
    (op \in {"Load", "Save", "Fresh", "Destroy", "AddTTL", "SetTTL"} /\ failedAt # 0)
        => (err = "store" /\ Len(calls) = failedAt)

\* C12 witness: the remaining-TTL read of a Save failed; the put that follows
\* it in the plan was not issued.
C12_Witness ==
    /\ op = "Save" /\ failedAt = 1 /\ err = "store"
    /\ calls = <<Call("ttl", k(id), EmptyMap, 0)>>
    /\ modified /\ ttl > 0

\* The response carrier was written once, with the id sid.
Wrote(ws, sid) ==
    Len(ws) = 1 /\ ws[1].value = sid

\* A step that is a call of AddTTL(d) or SetTTL(d) with d > 0.
PositiveTTLCall ==
    \E t \in TTLInputs, f \in FailAt, none \in AbsentTTL :
        t > 0 /\ (AddTTL(t, f, none) \/ SetTTL(t, f, none))

\* C13 (as stated): the carrier is written with the current id inside every
\* Fresh that makes a session and inside every AddTTL / SetTTL call with d > 0
\* on a session with a non-empty id; no other operation writes it.
C13_CarrierPoints ==
    [][/\ (op' \in {"Fresh", "New"} /\ fresh' /\ err' = "nil") => Wrote(carrier', id')
       /\ (PositiveTTLCall /\ id # "") => Wrote(carrier', id)
       /\ (op' \in {"Save", "Set", "Delete", "Load", "Destroy"}) => carrier' = <<>>
      ]_vars

\* C13 (amended): of the AddTTL / SetTTL calls with d > 0 on a session with a
\* non-empty id, those write the carrier that return no error and run on a
\* session that is not a read-only miss; every other call writes nothing.
C13_CarrierPointsNoError ==
    [][/\ (op' \in {"Fresh", "New"} /\ fresh' /\ err' = "nil") => Wrote(carrier', id')
       /\ (op' \in {"Fresh", "New"} /\ ~(fresh' /\ err' = "nil")) => carrier' = <<>>
       /\ (PositiveTTLCall /\ id # "" /\ ~noop /\ err' = "nil") => Wrote(carrier', id)
       /\ (op' \in {"AddTTL", "SetTTL"}
              /\ ~(PositiveTTLCall /\ id # "" /\ ~noop /\ err' = "nil")) => carrier' = <<>>
       /\ (op' \in {"Save", "Set", "Delete", "Load", "Destroy", "Tick"}) => carrier' = <<>>
      ]_vars

\* C13 witness: an AddTTL on a loaded session in cookie mode read the
\* remaining TTL and wrote the cookie with the session's id.
C13_Witness ==
    /\ op = "AddTTL" /\ err = "nil" /\ ~fresh /\ ~optHeader
    /\ Len(calls) = 1 /\ Wrote(carrier, id) /\ id = "c1"

\* C14: in cookie mode, whenever the synchronizer has run on a session that is
\* fresh, the cookie it wrote expires at now + the configured default TTL, and
\* so not before now.
C14_FreshCookieDefault ==
    (phase = "live" /\ ~optHeader /\ fresh /\ carrier # <<>>)
        => /\ carrier[1].kind = "cookie"
           /\ carrier[1].expires = now + optTTL
           /\ carrier[1].expires >= now

\* C16: in header mode every run of the synchronizer writes the session's id
\* as the header's value and nothing else, no cookie is ever set, and the
\* synchronizer calls the store in no operation, so AddTTL and SetTTL issue no
\* store call and return no error.
C16_HeaderMode ==
    [][(optHeader' /\ phase' = "live")
         => /\ carrier' # <<>>
                 => carrier' = <<[kind |-> "header", value |-> id', expires |-> 0]>>
            /\ (op' \in {"Fresh", "New"} /\ fresh' /\ err' = "nil") => Wrote(carrier', id')
            /\ (PositiveTTLCall /\ id # "" /\ ~noop) => Wrote(carrier', id)
            /\ (op' \in {"AddTTL", "SetTTL"})
                 => (calls' = <<>> /\ err' = "nil" /\ failedAt' = 0)
            /\ \A i \in 1..Len(calls') : calls'[i].op # "ttl" \/ op' = "Save"
      ]_vars

\* C16 witness: in header mode an AddTTL on a loaded session, whose record
\* the cache holds, wrote the header and made no store call.
C16_Witness ==
    /\ optHeader /\ op = "AddTTL" /\ ~fresh /\ ttl > 0
    /\ CacheExists(store, k(id))
    /\ carrier = <<[kind |-> "header", value |-> id, expires |-> 0]>>
    /\ calls = <<>>

\* ------------------------------------------------- cookie-mode specification
\* A request served in cookie mode, with every cookie write recorded.
InitCookie ==
    /\ InitSession
    /\ cookie = NoCookie(TRUE)
    /\ Alone

NextCookie ==
    \/ \E sid \in ClientIds, w \in WithTTLInputs : New(sid, FALSE, FALSE, w, 0)
    \/ \E v \in Values : Set("a", v)
    \/ \E t \in TTLInputs, f \in FailAt, none \in AbsentTTL : AddTTL(t, f, none)
    \/ \E t \in TTLInputs, f \in FailAt, none \in AbsentTTL : SetTTL(t, f, none)
    \/ \E f \in FailAt, none \in AbsentTTL : Save(f, none)
    \/ \E f \in FailAt : Fresh(f)
    \/ Tick

SpecCookie == InitCookie /\ [][NextCookie]_vars

\* C15: in cookie mode, when a Save that returns no error puts the record and
\* the record's remaining TTL is what it was at the latest cookie write, the
\* TTL it puts is the lifetime that cookie advertised.
C15_CookieMatchesSave ==
    [][(/\ op' = "Save" /\ err' = "nil" /\ ~optHeader
        /\ calls' # <<>> /\ calls'[Len(calls')].op = "put"
        /\ cookie.set /\ cookie.rem = CacheTTL(store, k(id), 0))
         => calls'[Len(calls')].ttl = cookie.life
      ]_vars

\* ------------------------------------------- two goroutines on one session
\* Goroutine w calls Fresh while goroutine r calls Id, Get, Exists and
\* CreatedAt; every statement of Fresh is a step, and session.mutex is a
\* sync.RWMutex.
ReaderCalls == {"Id", "Get", "Exists", "CreatedAt"}

\* What the handler's goroutines never touch.
outside == <<phase, opts, noop, now, destroyed, cookie, parked, request, response,
             optName, optCookie, options, todo>>

\* Mutant of FreshLocks: Fresh does not take the write lock.
FreshLocksNot ==
    FALSE

\* Fresh: it holds s.mutex.Lock() from before its first store call to its return.
FreshLocks ==
    TRUE

\* Id, Get, Exists, CreatedAt: they hold s.mutex.RLock() while they read.
ReaderLocks ==
    TRUE

\* What call c returns on a session with id sid and data d; Get and Exists are
\* called with the key created_at.
Returned(c, sid, d) ==
    IF c = "Id" THEN [type |-> "string", val |-> sid]
    ELSE IF c = "Get"
    THEN (IF "created_at" \in DOMAIN d THEN d["created_at"] ELSE [type |-> "nil", val |-> ""])
    ELSE IF c = "Exists"
    THEN [type |-> "bool", val |-> IF "created_at" \in DOMAIN d THEN "true" ELSE "false"]
    ELSE IF "created_at" \in DOMAIN d /\ d["created_at"].type = "string"
    THEN [type |-> "time", val |-> d["created_at"].val]
    ELSE [type |-> "nil", val |-> ""]

\* Goroutine w moves from one statement of Fresh to the next.
Goes(from, to) ==
    /\ pc.w = from
    /\ pc' = [pc EXCEPT !.w = to]
    /\ UNCHANGED <<obs, outside>>

FreshEnter ==
    /\ Goes("call", IF FreshSkips THEN "done" ELSE "lock")
    /\ UNCHANGED <<fields, store, nextGen, held, mutex, op, err, found, calls, carrier, failedAt>>

FreshLock ==
    /\ FreshLocks => (~mutex.writer /\ mutex.readers = 0)
    /\ Goes("lock", "forget")
    /\ mutex' = IF FreshLocks THEN [mutex EXCEPT !.writer = TRUE] ELSE mutex
    /\ UNCHANGED <<fields, store, nextGen, held, op, err, found, calls, carrier, failedAt>>

FreshForget(f) ==
    LET plan == FreshPlan(id) IN
    /\ f <= Len(plan)
    /\ Goes("forget", IF f = 0 THEN "id" ELSE "unlock")
    /\ store' = CacheApplyAll(store, Effective(plan, f))
    /\ calls' = Issued(plan, f)
    /\ err' = IF f = 0 THEN "nil" ELSE "store"
    /\ failedAt' = f
    /\ carrier' = <<>>
    /\ UNCHANGED <<fields, nextGen, held, mutex, op, found>>

FreshSetId ==
    /\ Goes("id", "ttl")
    /\ id' = FreshId
    /\ nextGen' = nextGen + 1
    /\ held' = held \cup {FreshId}
    /\ UNCHANGED <<data, ttl, fresh, modified, store, mutex, op, err, found, calls, carrier,
                   failedAt>>

FreshSetTTL ==
    /\ Goes("ttl", "data")
    /\ ttl' = optTTL
    /\ UNCHANGED <<id, data, fresh, modified, store, nextGen, held, mutex, op, err, found,
                   calls, carrier, failedAt>>

FreshMakeData ==
    /\ Goes("data", "fresh")
    /\ data' = EmptyMap
    /\ UNCHANGED <<id, ttl, fresh, modified, store, nextGen, held, mutex, op, err, found,
                   calls, carrier, failedAt>>

FreshSetFresh ==
    /\ Goes("fresh", "modified")
    /\ fresh' = TRUE
    /\ UNCHANGED <<id, data, ttl, modified, store, nextGen, held, mutex, op, err, found,
                   calls, carrier, failedAt>>

FreshSetModified ==
    /\ Goes("modified", "created_at")
    /\ modified' = TRUE
    /\ UNCHANGED <<id, data, ttl, fresh, store, nextGen, held, mutex, op, err, found,
                   calls, carrier, failedAt>>

FreshSetCreatedAt ==
    /\ Goes("created_at", "sync")
    /\ data' = MapSet(data, "created_at", Format(now))
    /\ UNCHANGED <<id, ttl, fresh, modified, store, nextGen, held, mutex, op, err, found,
                   calls, carrier, failedAt>>

FreshSync ==
    /\ Goes("sync", "unlock")
    /\ carrier' = SyncWrite(id, fresh, ttl, optHeader, 0)
    /\ calls' = calls \o SyncCalls(id, fresh, ttl, optHeader)
    /\ UNCHANGED <<fields, store, nextGen, held, mutex, op, err, found, failedAt>>

FreshUnlock ==
    /\ Goes("unlock", "done")
    /\ mutex' = IF FreshLocks THEN [mutex EXCEPT !.writer = FALSE] ELSE mutex
    /\ op' = "Fresh"
    /\ found' = FALSE
    /\ UNCHANGED <<fields, store, nextGen, held, err, calls, carrier, failedAt>>

\* Goroutine r: one call of a reader is RLock, the read, RUnlock.
Reads(from, to) ==
    /\ pc.r = from
    /\ pc' = [pc EXCEPT !.r = to]
    /\ UNCHANGED <<fields, store, nextGen, held, op, err, found, calls, carrier, failedAt,
                   outside>>

ReadCall(c) ==
    /\ Reads("call", "rlock")
    /\ obs' = [call |-> c, value |-> NoValue]
    /\ UNCHANGED mutex

ReadRLock ==
    /\ ReaderLocks => ~mutex.writer
    /\ Reads("rlock", "read")
    /\ mutex' = IF ReaderLocks THEN [mutex EXCEPT !.readers = @ + 1] ELSE mutex
    /\ UNCHANGED obs

ReadValue ==
    /\ Reads("read", "runlock")
    /\ obs' = [obs EXCEPT !.value = Returned(obs.call, id, data)]
    /\ UNCHANGED mutex

ReadRUnlock ==
    /\ Reads("runlock", "call")
    /\ mutex' = IF ReaderLocks THEN [mutex EXCEPT !.readers = @ - 1] ELSE mutex
    /\ UNCHANGED obs

\* The session the two goroutines share: New loaded it from the record of c1,
\* made at time 0.
PreFresh ==
    [id |-> "c1", data |-> Unmarshal(CHOOSE o \in InitObjs : TRUE)]

\* The session a Fresh that returns nil leaves.
PostFresh ==
    [id |-> Generator(1), data |-> FreshData(now)]

InitConc ==
    /\ phase = "live"
    /\ clientId = PreFresh.id
    /\ optTTL = DefaultTTL
    /\ optHeader \in BOOLEAN
    /\ optReadOnly = FALSE
    /\ id = PreFresh.id
    /\ data = PreFresh.data
    /\ ttl = 0
    /\ fresh = FALSE
    /\ modified = FALSE
    /\ noop = FALSE
    /\ now \in 0..MaxTime
    /\ store = [x \in {k(PreFresh.id)} |->
                  [valid |-> TRUE, obj |-> CHOOSE o \in InitObjs : TRUE, ttl |-> 1]]
    /\ nextGen = 1
    /\ op = "New"
    /\ err = "nil"
    /\ found = TRUE
    /\ calls = LoadPlan(PreFresh.id)
    /\ carrier = <<>>
    /\ destroyed = FALSE
    /\ failedAt = 0
    /\ held = {PreFresh.id}
    /\ cookie = NoCookie(FALSE)
    /\ parked = NoPeer
    /\ mutex = [writer |-> FALSE, readers |-> 0]
    /\ pc = [w |-> "call", r |-> "call"]
    /\ obs = [call |-> "none", value |-> NoValue]
    /\ request = NoRequest
    /\ response = NoResponse
    /\ Defaults
    /\ todo = <<>>

NextConc ==
    \/ FreshEnter
    \/ FreshLock
    \/ \E f \in 0..1 : FreshForget(f)
    \/ FreshSetId
    \/ FreshSetTTL
    \/ FreshMakeData
    \/ FreshSetFresh
    \/ FreshSetModified
    \/ FreshSetCreatedAt
    \/ FreshSync
    \/ FreshUnlock
    \/ \E c \in ReaderCalls : ReadCall(c)
    \/ ReadRLock
    \/ ReadValue
    \/ ReadRUnlock

SpecConc == InitConc /\ [][NextConc]_vars

\* C17: a Get, Exists, Id or CreatedAt that runs while another goroutine runs
\* Fresh returns what it returns on the session as it was before the Fresh or
\* as the Fresh leaves it, and while it reads the session is in one of these
\* two states, never in between.
C17_ReadersSeeWholeStates ==
    /\ obs.value # NoValue
         => obs.value \in {Returned(obs.call, PreFresh.id, PreFresh.data),
                           Returned(obs.call, PostFresh.id, PostFresh.data)}
    /\ pc.r \in {"read", "runlock"}
         => [id |-> id, data |-> data] \in {PreFresh, PostFresh}

\* C17 witness: a reader waits for the read lock while Fresh, holding the
\* write lock, has set the new id and emptied the data.
C17_Witness ==
    /\ pc.r = "rlock" /\ obs.call = "Get"
    /\ mutex.writer /\ pc.w = "created_at"
    /\ id = PostFresh.id /\ data = EmptyMap

\* ------------------------------------------ two instances with the same id
\* Two requests of the same client are served at once: New has loaded the
\* record of c1 into two Session instances. The operations above run on the
\* instance at hand; Switch puts it aside and takes the other one.
Fields ==
    [id |-> id, data |-> data, ttl |-> ttl, fresh |-> fresh, modified |-> modified,
     noop |-> noop]

Switch ==
    /\ phase = "live"
    /\ parked' = Fields
    /\ id' = parked.id
    /\ data' = parked.data
    /\ ttl' = parked.ttl
    /\ fresh' = parked.fresh
    /\ modified' = parked.modified
    /\ noop' = parked.noop
    /\ op' = "Switch"
    /\ err' = "nil"
    /\ found' = FALSE
    /\ calls' = <<>>
    /\ carrier' = <<>>
    /\ failedAt' = 0
    /\ UNCHANGED <<phase, opts, store, now, nextGen, destroyed, cookie, held, mutex, pc, obs,
                   request, response, optName, optCookie, options, todo>>

InitPeer ==
    /\ phase = "live"
    /\ clientId = PreFresh.id
    /\ optTTL = DefaultTTL
    /\ optHeader \in BOOLEAN
    /\ optReadOnly = FALSE
    /\ id = PreFresh.id
    /\ data = PreFresh.data
    /\ ttl = 0
    /\ fresh = FALSE
    /\ modified = FALSE
    /\ noop = FALSE
    /\ now = 0
    /\ store = [x \in {k(PreFresh.id)} |->
                  [valid |-> TRUE, obj |-> CHOOSE o \in InitObjs : TRUE, ttl |-> 1]]
    /\ nextGen = 1
    /\ op = "New"
    /\ err = "nil"
    /\ found = TRUE
    /\ calls = LoadPlan(PreFresh.id)
    /\ carrier = <<>>
    /\ destroyed = FALSE
    /\ failedAt = 0
    /\ held = {PreFresh.id}
    /\ cookie = NoCookie(FALSE)
    /\ parked = [NoPeer EXCEPT !.id = PreFresh.id, !.data = PreFresh.data]
    /\ mutex = [writer |-> FALSE, readers |-> 0]
    /\ pc = [w |-> "idle", r |-> "idle"]
    /\ obs = [call |-> "none", value |-> NoValue]
    /\ request = NoRequest
    /\ response = NoResponse
    /\ Defaults
    /\ todo = <<>>

NextPeer ==
    \/ \E key \in KeyInputs, v \in Values : Set(key, v)
    \/ \E key \in DeleteInputs : Delete(key)
    \/ \E f \in FailAt, none \in AbsentTTL : Save(f, none)
    \/ Switch

SpecPeer == InitPeer /\ [][NextPeer]_vars

\* C18: when two instances loaded from the same id are both modified and
\* saved, each Save whose store call does not fail returns no error and
\* leaves as the record the serialized data of the instance it ran on,
\* whatever the other instance saved before.
C18_LastSaveWins ==
    [][(op' = "Save" /\ failedAt' = 0 /\ modified /\ id = parked.id
          /\ CacheExists(store, k(id)))
         => /\ err' = "nil"
            /\ store'[k(id)].obj = Marshal(data)
            /\ store'[k(id)].valid
            /\ DOMAIN store' = DOMAIN store
      ]_vars

\* C18 witness: the other instance had set a to "x" and saved; then this one,
\* holding another value of a, saved: the record holds this one's data alone.
C18_Witness ==
    /\ op = "Save" /\ err = "nil" /\ calls # <<>>
    /\ ~parked.modified /\ "a" \in DOMAIN parked.data /\ parked.data["a"] = StrX
    /\ "a" \in DOMAIN data /\ data["a"] = Int1
    /\ store[k(id)].obj = Marshal(data)
    /\ store[k(id)].obj # Marshal(parked.data)

\* ------------------------------------------------------ the session middleware
\* What the downstream handlers return to the middleware.
HandlerErrors == {"nil", "handler"}

\* NewMiddleware, after c.Next() returned e: Save if e is nil, then return.
MiddlewareEnd(e, f, none) ==
    /\ phase = "live"
    /\ phase' = "done"
    /\ IF e = "nil"
       THEN DoSave(f, none)
       ELSE /\ f = 0 /\ none = 0
            /\ failedAt' = 0
            /\ Result("Next", e, FALSE, <<>>, <<>>)
            /\ UNCHANGED <<opts, fields, noop, store, now, nextGen, destroyed, held>>

\* One request through the middleware: New, the handlers' calls, the end.
NextMiddleware ==
    \/ \E sid \in ClientIds, ro \in BOOLEAN, hdr \in BOOLEAN, w \in WithTTLInputs, f \in FailAt :
          New(sid, ro, hdr, w, f)
    \/ \E key \in KeyInputs, v \in Values : Set(key, v)
    \/ \E t \in TTLInputs, f \in FailAt, none \in AbsentTTL : AddTTL(t, f, none)
    \/ \E f \in FailAt : Destroy(f)
    \/ \E f \in FailAt : Fresh(f)
    \/ \E e \in HandlerErrors, f \in FailAt, none \in AbsentTTL : MiddlewareEnd(e, f, none)

SpecMiddleware == Init /\ [][NextMiddleware]_vars

\* C19: when a request for which the middleware constructed a session has
\* ended, the last thing that ran is Save, whatever the handlers returned;
\* so a session still fresh at the end is one whose Save returned an error.
C19_SaveAtRequestEnd ==
    phase = "done" => (op = "Save" /\ (fresh => err # "nil"))

\* --------------------------------------------------------- the CSRF middleware
\* Requests: the method, the value of the configured header and of the
\* configured form field, and the options of the middleware: header mode or
\* form mode, a failure handler or none, and what the skip function answers
\* ("nil": no skip function).
Methods == {"GET", "POST", "PUT", "PATCH", "DELETE"}
SentTokens == {"", "t1", "t2"}
Requests ==
    [method : Methods, headerValue : SentTokens, formValue : {"", "t1"},
     header : BOOLEAN, fail : BOOLEAN, skip : {"nil", "false", "true"}]

\* isRFC9110Method: the methods that need a token.
UnsafeMethods == {"POST", "PUT", "PATCH", "DELETE"}

\* The token refresh generates; no client can have sent it.
NewToken == "t9"

\* session.Parse(c) finds the session the session middleware left.
Parse ==
    phase = "live"

\* session.Cast("csrf").StringSafe("").
CsrfStored(d) ==
    IF "csrf" \in DOMAIN d /\ d["csrf"].type = "string" THEN d["csrf"].val ELSE ""

\* refresh(session): the data after it stored the new token with Set.
Refresh(d) ==
    IF SetSkips THEN d ELSE SetData(d, "csrf", [type |-> "string", val |-> NewToken])

\* The token the request is checked against.
CsrfToken(d) ==
    IF CsrfStored(d) = "" THEN NewToken ELSE CsrfStored(d)

\* c.Get(option.key) in header mode, getBodyValue(c, option.key) in form mode.
CsrfInput(req) ==
    IF req.header THEN req.headerValue ELSE req.formValue

\* option.next != nil && option.next(c).
CsrfSkips(req) ==
    req.skip = "true"

\* Mutant of CsrfRejects: only an empty session token is refused.
CsrfRejectsEmptyOnly(token, input) ==
    token = ""

\* The test that refuses a request with an unsafe method.
CsrfRejects(token, input) ==
    token = "" \/ input # token

Reached == [outcome |-> "next", status |-> 0, body |-> "", error |-> ""]
Refused(fail) ==
    IF fail THEN [outcome |-> "fail", status |-> 0, body |-> "", error |-> ""]
    ELSE [outcome |-> "answer", status |-> 419, body |-> "invalid csrf token", error |-> ""]
Unresolved ==
    [outcome |-> "error", status |-> 0, body |-> "", error |-> "failed to resolve session"]

\* The handler NewMiddleware returns, run on the request.
Csrf ==
    /\ request # NoRequest
    /\ response = NoResponse
    /\ IF CsrfSkips(request)
       THEN /\ response' = Reached
            /\ UNCHANGED <<data, modified>>
       ELSE IF ~Parse
       THEN /\ response' = Unresolved
            /\ UNCHANGED <<data, modified>>
       ELSE /\ data' = IF CsrfStored(data) = "" THEN Refresh(data) ELSE data
            /\ modified' = (modified \/ (CsrfStored(data) = "" /\ ~SetSkips))
            /\ response' = IF request.method \in UnsafeMethods
                                /\ CsrfRejects(CsrfToken(data), CsrfInput(request))
                            THEN Refused(request.fail)
                            ELSE Reached
    /\ UNCHANGED <<phase, opts, id, ttl, fresh, noop, store, now, nextGen, op, err, found,
                   calls, carrier, destroyed, cookie, failedAt, held, parked, mutex, pc, obs,
                   request, optName, optCookie, options, todo>>

\* The sessions a request reaches the CSRF middleware with: none, a loaded one
\* with or without a token, and a read-only miss.
CsrfSessions ==
    { [phase |-> "start", id |-> "", data |-> EmptyMap, noop |-> FALSE],
      [phase |-> "live", id |-> PreFresh.id, data |-> PreFresh.data, noop |-> FALSE],
      [phase |-> "live", id |-> PreFresh.id,
       data |-> MapSet(PreFresh.data, "csrf", [type |-> "string", val |-> "t1"]),
       noop |-> FALSE],
      [phase |-> "live", id |-> PreFresh.id, data |-> EmptyMap, noop |-> TRUE] }

InitCsrf ==
    /\ \E ses \in CsrfSessions :
          /\ phase = ses.phase
          /\ id = ses.id
          /\ data = ses.data
          /\ noop = ses.noop
          /\ optReadOnly = ses.noop
          /\ store = IF ses.phase = "live" /\ ~ses.noop
                     THEN [x \in {k(ses.id)} |->
                             [valid |-> TRUE, obj |-> Marshal(ses.data), ttl |-> 1]]
                     ELSE EmptyMap
          /\ held = {ses.id} \ {""}
          /\ op = IF ses.phase = "live" THEN "New" ELSE "none"
    /\ clientId = id
    /\ optTTL = DefaultTTL
    /\ optHeader = FALSE
    /\ ttl = 0
    /\ fresh = FALSE
    /\ modified = FALSE
    /\ now = 0
    /\ nextGen = 1
    /\ err = "nil"
    /\ found = FALSE
    /\ calls = <<>>
    /\ carrier = <<>>
    /\ destroyed = FALSE
    /\ failedAt = 0
    /\ cookie = NoCookie(FALSE)
    /\ parked = NoPeer
    /\ mutex = [writer |-> FALSE, readers |-> 0]
    /\ pc = [w |-> "idle", r |-> "idle"]
    /\ obs = [call |-> "none", value |-> NoValue]
    /\ request \in Requests
    /\ response = NoResponse
    /\ Defaults
    /\ todo = <<>>

NextCsrf ==
    Csrf

SpecCsrf == InitCsrf /\ [][NextCsrf]_vars

\* C20: a request with an unsafe method that is not skipped reaches the next
\* handler only if the token in the configured header or form field is not
\* empty and is the one the session holds under "csrf"; otherwise, with a
\* session, it is answered by the failure handler if one is configured and
\* else by status 419 and the body "invalid csrf token"; a skipped request
\* always reaches the next handler, and so does, with a session, a request
\* with another method; without a session a request that is not skipped
\* yields the error "failed to resolve session".
C20_CsrfGate ==
    response # NoResponse =>
        LET unsafe == request.method \in {"POST", "PUT", "PATCH", "DELETE"}
            sent == IF request.header THEN request.headerValue ELSE request.formValue
            good == sent # "" /\ "csrf" \in DOMAIN data /\ data["csrf"].val = sent
            skipped == request.skip = "true"
        IN  /\ (unsafe /\ ~skipped /\ response.outcome = "next") => good
            /\ (unsafe /\ ~skipped /\ phase = "live" /\ ~good)
                  => response = IF request.fail
                                THEN [outcome |-> "fail", status |-> 0, body |-> "", error |-> ""]
                                ELSE [outcome |-> "answer", status |-> 419,
                                      body |-> "invalid csrf token", error |-> ""]
            /\ skipped => response.outcome = "next"
            /\ (~unsafe /\ phase = "live") => response.outcome = "next"
            /\ (~skipped /\ phase # "live")
                  => (response.outcome = "error" /\ response.error = "failed to resolve session")

\* C20 witness: a POST in header mode that carries the session's token in the
\* header, and another value in the form field, reached the next handler.
C20_Witness ==
    /\ response.outcome = "next"
    /\ request.method = "POST" /\ request.header /\ request.skip # "true"
    /\ request.headerValue = "t1" /\ request.formValue = ""
    /\ CsrfStored(data) = "t1"

\* ------------------------------------------- handlers that reach created_at
\* A request whose handlers may pass any key of the session to Set and
\* Delete, the key created_at included.
HandlerKeys == {"a", "created_at"}

NextKeys ==
    \/ \E sid \in ClientIds, hdr \in BOOLEAN : New(sid, FALSE, hdr, 0, 0)
    \/ \E key \in HandlerKeys, v \in Values : Set(key, v)
    \/ \E key \in HandlerKeys : Delete(key)
    \/ \E t \in TTLInputs, none \in AbsentTTL : AddTTL(t, 0, none)
    \/ \E t \in TTLInputs : SetTTL(t, 0, 0)
    \/ \E none \in AbsentTTL : Save(0, none)
    \/ Load(0)
    \/ Fresh(0)

SpecKeys == Init /\ [][NextKeys]_vars

\* C21: a session that has an id and is not a read-only miss holds the key
\* created_at in its data, whatever Set, Delete, AddTTL, SetTTL, Save, Load
\* and Fresh calls the handlers have made.
C21_CreatedAtKept ==
    (phase = "live" /\ id # "" /\ ~noop) => "created_at" \in DOMAIN data

\* C22: a Save that made its store write without error leaves the session not
\* fresh, not modified and with no pending TTL request, and a Save that follows
\* it directly issues no store call: a TTL request is applied at most once.
C22_SaveSettles ==
    [][/\ (op' = "Save" /\ err' = "nil" /\ calls' # <<>>)
            => (~fresh' /\ ~modified' /\ ttl' = 0)
       /\ (op = "Save" /\ err = "nil" /\ calls # <<>> /\ op' = "Save")
            => (calls' = <<>> /\ store' = store)
      ]_vars

\* C22 witness: a Save has put the record with the TTL of a pending request,
\* and nothing of the request is left.
C22_Witness ==
    /\ op = "Save" /\ err = "nil" /\ ttl = 0 /\ ~modified
    /\ \E i \in DOMAIN calls : calls[i].op = "put" /\ calls[i].ttl = 3

\* C24: a Destroy that returns no error on a session with a non-empty id that
\* is not a read-only miss deletes the record "ses-" + id and leaves the id
\* empty, the data empty, fresh and modified false and no pending TTL request;
\* a Destroy on an empty id or on a read-only miss makes no store call and
\* changes nothing.
C24_Destroy ==
    [][(op' = "Destroy") =>
        IF id = "" \/ noop
        THEN /\ calls' = <<>> /\ err' = "nil"
             /\ UNCHANGED <<id, data, fresh, modified, ttl, noop, store>>
        ELSE (err' = "nil") =>
             /\ calls' = <<[op |-> "forget", key |-> "ses-" \o id, val |-> EmptyMap, ttl |-> 0]>>
             /\ ("ses-" \o id) \notin DOMAIN store'
             /\ \A key \in DOMAIN store' : key \in DOMAIN store /\ store'[key] = store[key]
             /\ id' = "" /\ data' = EmptyMap
             /\ ~fresh' /\ ~modified' /\ ttl' = 0
      ]_vars

\* C24 witness: Destroy has removed the stored record of the client's id and
\* emptied the session.
C24_Witness ==
    /\ op = "Destroy" /\ err = "nil" /\ id = "" /\ data = EmptyMap
    /\ calls # <<>> /\ calls[1].key = "ses-c1"
    /\ "ses-c1" \notin DOMAIN store

\* C25: a Save on a session that is not fresh, is modified and has no pending
\* TTL request issues one store call, an update of its record: it never puts,
\* never reads the remaining TTL, and leaves the set of records and the
\* remaining TTL of each as they were.
C25_SaveUpdatesOnly ==
    [][(op' = "Save" /\ id # "" /\ ~noop /\ ~fresh /\ modified /\ ttl = 0) =>
        /\ Len(calls') = 1
        /\ calls'[1].op = "update" /\ calls'[1].key = "ses-" \o id
        /\ DOMAIN store' = DOMAIN store
        /\ \A key \in DOMAIN store : store'[key].ttl = store[key].ttl
      ]_vars

\* C25 witness: a Save has replaced the data of the record of the client's id
\* by an update, and the record has the remaining TTL it had.
C25_Witness ==
    /\ op = "Save" /\ err = "nil" /\ id = "c1"
    /\ Len(calls) = 1 /\ calls[1].op = "update"
    /\ "ses-c1" \in DOMAIN store /\ store["ses-c1"].obj = calls[1].val
    /\ store["ses-c1"].obj # Marshal(MapSet(FreshData(0), "a", Int1))

\* C26: Fresh on a session with a non-empty id assigns the new id only after
\* the forget of the record of the old id was issued and returned no error;
\* after a Fresh that returned no error the store holds no record under the old
\* id and none under the new id, and a fresh session has no record under its id
\* until Save puts it.
C26_FreshDeletesFirst ==
    /\ [][(op' = "Fresh" /\ id # "") =>
            /\ (id' # id) =>
                  /\ calls' = <<[op |-> "forget", key |-> "ses-" \o id, val |-> EmptyMap, ttl |-> 0]>>
                  /\ err' = "nil"
            /\ (err' = "nil") =>
                  /\ ("ses-" \o id) \notin DOMAIN store'
                  /\ ("ses-" \o id') \notin DOMAIN store'
         ]_vars
    /\ []((phase = "live" /\ fresh /\ id # "") => ("ses-" \o id) \notin DOMAIN store)

\* C26 witness: Fresh has replaced the loaded session of the client's id: the
\* record of the client's id is gone and the new id has none.
C26_Witness ==
    /\ op = "Fresh" /\ err = "nil" /\ clientId = "c1" /\ id \notin {"", "c1"}
    /\ calls # <<>> /\ calls[1].key = "ses-c1"
    /\ DOMAIN store = {}

\* A step that is a call of AddTTL(t), and one that is a call of SetTTL(t).
AddTTLCall(t) ==
    \E f \in FailAt, none \in AbsentTTL : AddTTL(t, f, none)

SetTTLCall(t) ==
    \E f \in FailAt, none \in AbsentTTL : SetTTL(t, f, none)

\* The TTL a Save puts for the pending request alone: the remaining TTL of the
\* record extended by a request of AddTTL, the TTL of a request of SetTTL.
Requested(none) ==
    IF ttl > 0
    THEN (IF CacheTTL(store, "ses-" \o id, none) <= 0 THEN ttl
          ELSE CacheTTL(store, "ses-" \o id, none) + ttl)
    ELSE -ttl

\* C27 (as stated): every AddTTL(d) with d > 0 leaves +d as the pending TTL
\* request and every SetTTL(d) with d > 0 leaves -d, whatever was pending; a
\* call with d <= 0 leaves the pending request and the modified flag as they
\* were; a Save that writes with a request pending puts the TTL of that
\* request alone.
C27_LastTTLCallWins ==
    [][/\ \A t \in TTLInputs :
            /\ (t > 0 /\ AddTTLCall(t)) => ttl' = t
            /\ (t > 0 /\ SetTTLCall(t)) => ttl' = -t
            /\ (t <= 0 /\ (AddTTLCall(t) \/ SetTTLCall(t))) => UNCHANGED <<ttl, modified>>
       /\ (op' = "Save" /\ err' = "nil" /\ calls' # <<>> /\ ttl # 0) =>
            \E none \in AbsentTTL :
                calls'[Len(calls')].op = "put" /\ calls'[Len(calls')].ttl = Requested(none)
      ]_vars

\* C27 (amended): on a session that is not a read-only miss every AddTTL(d)
\* with d > 0 leaves +d pending and every SetTTL(d) with d > 0 leaves -d,
\* whatever was pending; a call with d <= 0, or any call on a read-only miss,
\* leaves the pending request and the modified flag as they were; a Save that
\* writes a session that is not fresh with a request pending puts the TTL of
\* that request alone, and a Save of a fresh session puts the default TTL.
C27_LastTTLCallWinsLive ==
    [][/\ \A t \in TTLInputs :
            /\ (t > 0 /\ ~noop /\ AddTTLCall(t)) => (ttl' = t /\ modified')
            /\ (t > 0 /\ ~noop /\ SetTTLCall(t)) => (ttl' = -t /\ modified')
            /\ ((t <= 0 \/ noop) /\ (AddTTLCall(t) \/ SetTTLCall(t)))
                  => UNCHANGED <<ttl, modified>>
       /\ (op' = "Save" /\ err' = "nil" /\ calls' # <<>> /\ ttl # 0 /\ ~fresh) =>
            \E none \in AbsentTTL :
                calls'[Len(calls')].op = "put" /\ calls'[Len(calls')].ttl = Requested(none)
       /\ (op' = "Save" /\ calls' # <<>> /\ fresh) =>
            (calls'[1].op = "put" /\ calls'[1].ttl = optTTL)
      ]_vars

\* C27 witness: AddTTL(2) has left +2 pending on the loaded session of the
\* client's id, whose record has 1 left.
C27_Witness ==
    /\ op = "AddTTL" /\ err = "nil" /\ ttl = 2 /\ id = "c1" /\ ~noop /\ ~fresh
    /\ "ses-c1" \in DOMAIN store /\ store["ses-c1"].ttl = 1

\* The calls among cs that write a record under the key of session id sid.
WritesUnder(cs, sid) ==
    { i \in DOMAIN cs : cs[i].op \in {"put", "update"} /\ cs[i].key = "ses-" \o sid }

\* C28: outside read-only mode, a session built for a client's id that has no
\* record gets the id the generator produces, not the client's; a session whose
\* id is not the client's never takes the client's id afterwards, and no
\* operation on it issues a put or an update under the key of the client's id.
C28_NoFixation ==
    [][/\ (op' = "New" /\ phase' = "live" /\ ~optReadOnly' /\ clientId' # ""
            /\ ("ses-" \o clientId') \notin DOMAIN store)
          => /\ id' = Generator(nextGen) /\ id' # clientId'
             /\ WritesUnder(calls', clientId') = {}
       /\ (phase = "live" /\ ~optReadOnly /\ clientId # "" /\ id # clientId)
          => /\ id' # clientId /\ clientId' = clientId
             /\ WritesUnder(calls', clientId) = {}
             /\ (("ses-" \o clientId) \notin DOMAIN store
                    => ("ses-" \o clientId) \notin DOMAIN store')
      ]_vars

\* C28 witness: New, outside read-only mode, has built a fresh session with a
\* generated id for the client's id c1, which has no record.
C28_Witness ==
    /\ op = "New" /\ phase = "live" /\ ~optReadOnly /\ clientId = "c1"
    /\ fresh /\ id = "g1" /\ "ses-c1" \notin DOMAIN store

Goroutines == {"p", "q"}

RaceCalls == {"Save", "Destroy", "Fresh", "AddTTL", "SetTTL"}

Idle == [at |-> "idle", call |-> "none", arg |-> 0]

\* What the two goroutines never touch.
apart == <<phase, opts, noop, now, parked, obs, request, response,
           optName, optCookie, options, todo>>

logs == <<op, err, found, calls, carrier, cookie, failedAt>>

\* The guard of the early return of call c with argument t: the first
\* statement of the method, before s.mutex.Lock().
RaceSkips(c, t) ==
    CASE c = "Save" -> SaveSkips
      [] c = "Destroy" -> DestroySkips
      [] c = "Fresh" -> FreshSkips
      [] OTHER -> TTLSkips(t)

\* The fields of the session that the guard of call c reads.
GuardReads(c) ==
    CASE c = "Save" -> {"id", "fresh", "modified", "noop"}
      [] c = "Destroy" -> {"id", "noop"}
      [] OTHER -> {"noop"}

\* Goroutine g holds the write lock of s.mutex.
HoldsLock(g) ==
    mutex.writer /\ pc[g].at \in {"body", "unlock"}

\* Goroutine g calls c with argument t; Fresh is called while the generator
\* has an id left for it.
RaceCall(g, c, t) ==
    /\ pc[g].at = "idle"
    /\ IF c \in {"AddTTL", "SetTTL"} THEN t \in TTLInputs ELSE t = 0
    /\ (c = "Fresh") =>
          nextGen + Cardinality({h \in Goroutines : pc[h].call = "Fresh"}) <= MaxGen
    /\ pc' = [pc EXCEPT ![g] = [at |-> "guard", call |-> c, arg |-> t]]
    /\ UNCHANGED <<fields, store, nextGen, destroyed, held, mutex, logs, apart>>

\* The guard: the call returns nil, or goes on to take the lock.
RaceGuard(g) ==
    /\ pc[g].at = "guard"
    /\ IF RaceSkips(pc[g].call, pc[g].arg)
       THEN /\ pc' = [pc EXCEPT ![g] = Idle]
            /\ Log(pc[g].call, "nil", FALSE, <<>>, <<>>)
            /\ failedAt' = 0
       ELSE /\ pc' = [pc EXCEPT ![g].at = "lock"]
            /\ UNCHANGED logs
    /\ UNCHANGED <<fields, store, nextGen, destroyed, held, mutex, apart>>

RaceLock(g) ==
    /\ pc[g].at = "lock"
    /\ ~mutex.writer /\ mutex.readers = 0
    /\ mutex' = [mutex EXCEPT !.writer = TRUE]
    /\ pc' = [pc EXCEPT ![g].at = "body"]
    /\ UNCHANGED <<fields, store, nextGen, destroyed, held, logs, apart>>

\* Goroutine g, holding the lock, runs the statements of call c to the return.
Runs(g, c, f) ==
    /\ pc[g].at = "body" /\ pc[g].call = c
    /\ pc' = [pc EXCEPT ![g].at = "unlock"]
    /\ failedAt' = f
    /\ UNCHANGED <<mutex, apart>>

RaceSave(g, f, none) ==
    /\ Runs(g, "Save", f)
    /\ SaveBody(f, none)
    /\ UNCHANGED <<id, data, nextGen, destroyed, held>>

RaceDestroy(g, f) ==
    /\ Runs(g, "Destroy", f)
    /\ DestroyBody(f)
    /\ UNCHANGED <<nextGen, held>>

RaceFresh(g, f) ==
    /\ Runs(g, "Fresh", f)
    /\ DoFresh("Fresh", id, <<>>, f, optTTL, optHeader)

RaceAddTTL(g, f, none) ==
    /\ Runs(g, "AddTTL", f)
    /\ ScheduleTTL("AddTTL", pc[g].arg, f, none)
    /\ UNCHANGED <<id, data, fresh, store, nextGen, destroyed, held>>

RaceSetTTL(g, f, none) ==
    /\ Runs(g, "SetTTL", f)
    /\ ScheduleTTL("SetTTL", -pc[g].arg, f, none)
    /\ UNCHANGED <<id, data, fresh, store, nextGen, destroyed, held>>

\* Mutant of RaceUnlock: the call returns with the lock still held.
RaceUnlockKeeps(g) ==
    /\ pc[g].at = "unlock"
    /\ mutex' = mutex
    /\ pc' = [pc EXCEPT ![g] = Idle]
    /\ UNCHANGED <<fields, store, nextGen, destroyed, held, logs, apart>>

RaceUnlock(g) ==
    /\ pc[g].at = "unlock"
    /\ mutex' = [mutex EXCEPT !.writer = FALSE]
    /\ pc' = [pc EXCEPT ![g] = Idle]
    /\ UNCHANGED <<fields, store, nextGen, destroyed, held, logs, apart>>

\* The session the goroutines share: New loaded it from the record of c1.
Shared ==
    /\ phase = "live"
    /\ clientId = PreFresh.id
    /\ optTTL = DefaultTTL
    /\ optHeader \in BOOLEAN
    /\ optReadOnly = FALSE
    /\ id = PreFresh.id
    /\ data = PreFresh.data
    /\ ttl = 0
    /\ fresh = FALSE
    /\ modified = FALSE
    /\ noop = FALSE
    /\ now = 0
    /\ store = [x \in {k(PreFresh.id)} |->
                  [valid |-> TRUE, obj |-> CHOOSE o \in InitObjs : TRUE, ttl |-> 1]]
    /\ nextGen = 1
    /\ op = "New"
    /\ err = "nil"
    /\ found = TRUE
    /\ calls = LoadPlan(PreFresh.id)
    /\ carrier = <<>>
    /\ destroyed = FALSE
    /\ failedAt = 0
    /\ held = {PreFresh.id}
    /\ cookie = NoCookie(FALSE)
    /\ parked = NoPeer
    /\ mutex = [writer |-> FALSE, readers |-> 0]
    /\ pc = [g \in Goroutines |-> Idle]
    /\ obs = [call |-> "none", value |-> NoValue]
    /\ request = NoRequest
    /\ response = NoResponse
    /\ Defaults

\* Goroutines that go on calling: no list of calls to get through.
InitRace ==
    /\ Shared
    /\ todo = <<>>

NextRace ==
    \/ \E g \in Goroutines, c \in RaceCalls, t \in TTLInputs \cup {0} : RaceCall(g, c, t)
    \/ \E g \in Goroutines : RaceGuard(g)
    \/ \E g \in Goroutines : RaceLock(g)
    \/ \E g \in Goroutines, f \in FailAt, none \in AbsentTTL : RaceSave(g, f, none)
    \/ \E g \in Goroutines, f \in FailAt : RaceDestroy(g, f)
    \/ \E g \in Goroutines, f \in FailAt : RaceFresh(g, f)
    \/ \E g \in Goroutines, f \in FailAt, none \in AbsentTTL : RaceAddTTL(g, f, none)
    \/ \E g \in Goroutines, f \in FailAt, none \in AbsentTTL : RaceSetTTL(g, f, none)
    \/ \E g \in Goroutines : RaceUnlock(g)

SpecRace == InitRace /\ [][NextRace]_vars

\* C23: a goroutine reads and writes id, data, fresh, modified and the pending
\* TTL request of the session only while it holds the write lock: in the guard
\* of the early return as in the statements that follow it.
C23_LockedAccess ==
    [][\A g \in Goroutines :
          /\ (RaceGuard(g)
                /\ GuardReads(pc[g].call) \cap {"id", "data", "fresh", "modified", "ttl"} # {})
             => HoldsLock(g)
          /\ (pc[g].at = "body" /\ pc'[g].at = "unlock") => HoldsLock(g)
      ]_vars

\* C29: no store call is issued with the key of the empty id, whatever the
\* order in which the steps of the two goroutines' calls are taken.
C29_NoEmptyKey ==
    \A i \in DOMAIN calls : calls[i].key # "ses-"

\* C31: a Save, Destroy or Fresh in which a store call fails returns the error
\* and leaves id, data, fresh, modified, the pending TTL request and the store
\* as they were, so that the same call can be made again.
C31_FailureLeavesState ==
    [][(op' \in {"Save", "Destroy", "Fresh"} /\ (failedAt' # 0 \/ err' # "nil"))
        => /\ err' = "store" /\ failedAt' # 0
           /\ calls' # <<>>
           /\ UNCHANGED <<id, data, fresh, modified, ttl, store>>
      ]_vars

\* C31 witness: the put of a Save with a pending request of AddTTL has failed
\* after the read of the remaining TTL: the session is still modified and the
\* request still pending.
C31_Witness ==
    /\ op = "Save" /\ err = "store" /\ failedAt = 2
    /\ Len(calls) = 2 /\ calls[2].op = "put"
    /\ id = "c1" /\ modified /\ ttl = 2
    /\ "ses-c1" \in DOMAIN store /\ store["ses-c1"].ttl = 1

\* --------------------------------------------------- the options of New
\* New starts from its defaults and applies the options it was given in order
\* (for _, opt := range options); each step applies one of them.
MaxOptions == 3

OptionNames == {"", " ", " a", "b"}

Options == [kind : {"WithHeader", "WithCookie"}, name : OptionNames]

OptionSeqs ==
    UNION { [1..n -> Options] : n \in 0..MaxOptions }

\* WithHeader(name) applied to the configuration o.
WithHeader(name, o) ==
    IF TrimSpace(name) # ""
    THEN [name |-> TrimSpace(name), header |-> TRUE, cookie |-> "nil"]
    ELSE o

\* Mutant of WithCookie: the header flag is left as it was.
WithCookieKeepsHeader(name, o) ==
    IF TrimSpace(name) # ""
    THEN [name |-> TrimSpace(name), header |-> o.header, cookie |-> "given"]
    ELSE o

\* WithCookie(name, cookie) applied to the configuration o.
WithCookie(name, o) ==
    IF TrimSpace(name) # ""
    THEN [name |-> TrimSpace(name), header |-> FALSE, cookie |-> "given"]
    ELSE o

\* New applies the next of its options.
NewApplies ==
    /\ phase = "start"
    /\ pc.opt < Len(options)
    /\ LET opt == options[pc.opt + 1]
           o == [name |-> optName, header |-> optHeader, cookie |-> optCookie]
           after == IF opt.kind = "WithHeader"
                    THEN WithHeader(opt.name, o) ELSE WithCookie(opt.name, o)
       IN  /\ optName' = after.name
           /\ optHeader' = after.header
           /\ optCookie' = after.cookie
    /\ pc' = [pc EXCEPT !.opt = @ + 1]
    /\ UNCHANGED <<phase, clientId, optTTL, optReadOnly, fields, noop, store, now, nextGen,
                   logs, destroyed, held, parked, mutex, obs, request, response, options,
                   todo>>

\* New, its options applied, reads the client's id, loads or makes the session
\* and, for a session it makes, writes the carrier.
NewConfigured ==
    /\ pc.opt = Len(options)
    /\ \E sid \in ClientIds : New(sid, FALSE, optHeader, 0, 0)

InitOptions ==
    /\ InitSession
    /\ cookie = NoCookie(FALSE)
    /\ parked = NoPeer
    /\ mutex = [writer |-> FALSE, readers |-> 0]
    /\ pc = [opt |-> 0]
    /\ obs = [call |-> "none", value |-> NoValue]
    /\ request = NoRequest
    /\ response = NoResponse
    /\ optName = "session"
    /\ optCookie = "default"
    /\ options \in OptionSeqs
    /\ todo = <<>>

NextOptions ==
    \/ NewApplies
    \/ NewConfigured

SpecOptions == InitOptions /\ [][NextOptions]_vars

\* The options applied so far that have a name that is not blank.
Named ==
    { j \in 1..pc.opt : options[j].name \notin {"", " "} }

\* C32: whatever options were applied, header mode is on exactly when the last
\* of them with a name that is not blank was WithHeader; when header mode is
\* off the cookie attributes are there, also when the carrier is written as a
\* cookie; and applying an option with a blank name changes nothing.
C32_OptionsConfigure ==
    /\ [](/\ optHeader = (/\ Named # {}
                          /\ options[CHOOSE j \in Named : \A i \in Named : i <= j].kind
                                = "WithHeader")
          /\ ~optHeader => optCookie # "nil"
          /\ (carrier # <<>> /\ carrier[1].kind = "cookie") => optCookie # "nil")
    /\ [][(pc'.opt = pc.opt + 1 /\ options[pc'.opt].name \in {"", " "})
            => UNCHANGED <<optName, optHeader, optCookie>>]_vars

\* C32 witness: WithCookie, then WithHeader, then an option with a blank name
\* were applied, and header mode is on with no cookie attributes.
C32_Witness ==
    /\ pc.opt = 3
    /\ options[1] = [kind |-> "WithCookie", name |-> "b"]
    /\ options[2] = [kind |-> "WithHeader", name |-> " a"]
    /\ options[3] = [kind |-> "WithCookie", name |-> " "]
    /\ optHeader /\ optCookie = "nil" /\ optName = "a"

\* ------------------------------- a finite set of calls on two goroutines
\* Each goroutine has a list of calls to make on the shared session; it makes
\* them one after the other: Save, Destroy, Fresh, AddTTL and SetTTL in the
\* steps of the goroutines above, Id in the steps RLock, read, RUnlock.
MaxCalls == 1

LiveCalls ==
    { [call |-> c, arg |-> t] : c \in {"Save", "Destroy", "Fresh"}, t \in {0} }
    \cup { [call |-> c, arg |-> t] : c \in {"AddTTL", "SetTTL"},
                                       t \in {d \in TTLInputs : d > 0} }
    \cup { [call |-> "Id", arg |-> 0] }

\* Lists of calls that stay within what the generator and the cache are
\* modelled for: Fresh as often as the generator has ids, and no AddTTL that
\* extends a TTL another request may have set.
Feasible(td) ==
    LET Among(Is(_)) ==
            { x \in Goroutines \X (1..MaxCalls) :
                x[2] <= Len(td[x[1]]) /\ Is(td[x[1]][x[2]]) }
        IsFresh(x) == x.call = "Fresh"
        IsExtend(x) == x.call = "AddTTL" /\ x.arg > 0
        IsRequest(x) == x.call \in {"AddTTL", "SetTTL"} /\ x.arg > 0
    IN  /\ Cardinality(Among(IsFresh)) <= MaxGen
        /\ Among(IsExtend) # {} => Cardinality(Among(IsRequest)) <= 1

\* Goroutine g makes the next call of its list.
LiveCall(g) ==
    /\ pc[g].at = "idle"
    /\ todo[g] # <<>>
    /\ pc' = [pc EXCEPT ![g] = [at |-> IF Head(todo[g]).call \in ReaderCalls
                                        THEN "rlock" ELSE "guard",
                                call |-> Head(todo[g]).call,
                                arg |-> Head(todo[g]).arg]]
    /\ todo' = [todo EXCEPT ![g] = Tail(@)]
    /\ UNCHANGED <<fields, store, nextGen, destroyed, held, mutex, logs, phase, opts, noop,
                   now, parked, obs, request, response, optName, optCookie, options>>

\* Goroutine g, in a call of a reader, takes the read lock, reads, and gives
\* the lock back.
LiveRLock(g) ==
    /\ pc[g].at = "rlock"
    /\ ReaderLocks => ~mutex.writer
    /\ mutex' = IF ReaderLocks THEN [mutex EXCEPT !.readers = @ + 1] ELSE mutex
    /\ pc' = [pc EXCEPT ![g].at = "read"]
    /\ UNCHANGED <<fields, store, nextGen, destroyed, held, logs, apart>>

LiveRead(g) ==
    /\ pc[g].at = "read"
    /\ obs' = [call |-> pc[g].call, value |-> Returned(pc[g].call, id, data)]
    /\ pc' = [pc EXCEPT ![g].at = "runlock"]
    /\ UNCHANGED <<fields, store, nextGen, destroyed, held, logs, mutex, phase, opts, noop,
                   now, parked, request, response, optName, optCookie, options, todo>>

LiveRUnlock(g) ==
    /\ pc[g].at = "runlock"
    /\ mutex' = IF ReaderLocks THEN [mutex EXCEPT !.readers = @ - 1] ELSE mutex
    /\ pc' = [pc EXCEPT ![g] = Idle]
    /\ UNCHANGED <<fields, store, nextGen, destroyed, held, logs, apart>>

\* Goroutine g takes the next step of the call it is in; every store call
\* returns, with an error or without.
Proceeds(g) ==
    \/ LiveRLock(g)
    \/ LiveRead(g)
    \/ LiveRUnlock(g)
    \/ RaceGuard(g)
    \/ RaceLock(g)
    \/ \E f \in FailAt, none \in AbsentTTL : RaceSave(g, f, none)
    \/ \E f \in FailAt : RaceDestroy(g, f)
    \/ \E f \in FailAt : RaceFresh(g, f)
    \/ \E f \in FailAt, none \in AbsentTTL : RaceAddTTL(g, f, none)
    \/ \E f \in FailAt, none \in AbsentTTL : RaceSetTTL(g, f, none)
    \/ RaceUnlock(g)

InitLive ==
    /\ Shared
    /\ todo \in { td \in [Goroutines -> UNION { [1..n -> LiveCalls] : n \in 0..MaxCalls }] : Feasible(td) }

NextLive ==
    \/ \E g \in Goroutines : LiveCall(g)
    \/ \E g \in Goroutines : Proceeds(g)

\* The scheduler runs every goroutine that can take a step, and a goroutine
\* waiting in Lock gets the lock once it stays free.
SpecLive ==
    /\ InitLive
    /\ [][NextLive]_vars
    /\ \A g \in Goroutines : WF_vars(LiveCall(g) \/ Proceeds(g))

\* The goroutines past s.mutex.Lock() and not yet past the deferred Unlock.
Holders ==
    { g \in Goroutines : pc[g].at \in {"body", "unlock"} }

\* The goroutines past s.mutex.RLock() and not yet past the deferred RUnlock.
Readers ==
    { g \in Goroutines : pc[g].at \in {"read", "runlock"} }

\* C33: the lock is held by the goroutines inside a call that took it and by
\* no other, by one writer or by readers: no call takes it twice and every
\* return, with an error or without, releases it; and the goroutines get
\* through every call of their lists.
C33_DeadlockFree ==
    /\ [](/\ Cardinality(Holders) = IF mutex.writer THEN 1 ELSE 0
          /\ Cardinality(Readers) = mutex.readers
          /\ ~(mutex.writer /\ mutex.readers > 0))
    /\ <>(\A g \in Goroutines : todo[g] = <<>> /\ pc[g].at = "idle")

\* C33 witness: both goroutines are through their lists, Destroy has emptied
\* the session, the call that returned last returned the error of a store
\* call, and the lock is free.
C33_Witness ==
    /\ \A g \in Goroutines : todo[g] = <<>> /\ pc[g].at = "idle"
    /\ ~mutex.writer
    /\ err = "store" /\ failedAt # 0
    /\ destroyed /\ id = ""

====
